---- MODULE Spec2Model ----
(***************************************************************************)
(* models/train_classifier.py of the disaster response pipeline: the       *)
(* label loader, the tokenizer, the evaluator, the persister and main.     *)
(* Library calls (re, nltk, pandas, scikit-learn, pickle) are modelled by  *)
(* what they do on the values this script hands them.                      *)
(***************************************************************************)
EXTENDS Integers, Sequences, FiniteSets, TLC

(***************************************************************************)
(* Bounds of the model.                                                    *)
(***************************************************************************)
\* longest input text given to tokenize, in characters
MaxLen == 3

\* most rows of a messages table whose "related" cells are enumerated freely
MaxRows == 3

\* most columns of a narrow messages table (4 leading columns and the labels)
MaxCols == 7

\* rows of the end-to-end messages table
Messages == 10

\* most command-line arguments after the script name
MaxArgs == 3

(***************************************************************************)
(* Characters.  A text is a sequence of one-character strings.             *)
(***************************************************************************)
\* the characters a modelled message is written with
Chars == {"a", "s", "A", "S", "_", "!", " "}

\* the characters the regular expression class \w matches
WordChars == {"a", "s", "A", "S", "_"}

\* the characters the regular expression class \s matches
SpaceChars == {" "}

\* punctuation (as in string.punctuation); the underscore is punctuation
\* and a \w character at once
Punctuation == {"_", "!"}

\* the cased characters that are upper case
UpperChars == {"A", "S"}

Texts == UNION {[1..n -> Chars] : n \in 0..MaxLen}

(***************************************************************************)
(* tokenize, line 43: re.sub(r'[^\w\s]', '', text)                         *)
(***************************************************************************)
re_sub(t) == SelectSeq(t, LAMBDA c : c \in WordChars \cup SpaceChars)

(***************************************************************************)
(* tokenize, line 44: word_tokenize on a text of \w and \s characters      *)
(* only: no sentence or punctuation boundary is left, and no contraction   *)
(* of the Treebank rules is spelled with the modelled letters, so the      *)
(* text is split at runs of whitespace.                                    *)
(***************************************************************************)
RECURSIVE split(_, _, _)
split(t, cur, acc) ==
    IF t = <<>>
    THEN IF cur = <<>> THEN acc ELSE Append(acc, cur)
    ELSE IF Head(t) \in SpaceChars
         THEN split(Tail(t), <<>>, IF cur = <<>> THEN acc ELSE Append(acc, cur))
         ELSE split(Tail(t), Append(cur, Head(t)), acc)

word_tokenize(t) == split(t, <<>>, <<>>)

(***************************************************************************)
(* tokenize, lines 45 and 49: WordNetLemmatizer().lemmatize(tok), noun     *)
(* part of speech.  WordNet's morphy: look the form up, detach a suffix    *)
(* and look the result up, repeat detaching while nothing is found; the    *)
(* shortest form found is the lemma, and a word with no form found is      *)
(* returned unchanged.  Look-up is case-sensitive on lower-case entries.   *)
(***************************************************************************)
\* WordNet noun entries spelled with the modelled letters (an excerpt)
Lexicon == { <<"a">>, <<"s">>, <<"a", "a">>, <<"a", "s">>, <<"s", "a">>,
             <<"s", "s">>, <<"a", "s", "s">>, <<"a", "a", "a">> }

\* the noun detachment rules that apply to the modelled letters: ("s", "")
apply_rules(forms) ==
    LET idx == {i \in 1..Len(forms) :
                   Len(forms[i]) > 0 /\ forms[i][Len(forms[i])] = "s"}
        keep == SelectSeq([i \in 1..Len(forms) |-> i], LAMBDA i : i \in idx)
    IN  [k \in 1..Len(keep) |-> SubSeq(forms[keep[k]], 1, Len(forms[keep[k]]) - 1)]

filter_forms(forms) == SelectSeq(forms, LAMBDA f : f \in Lexicon)

RECURSIVE morphy_loop(_)
morphy_loop(forms) ==
    IF forms = <<>> THEN <<>>
    ELSE LET next == apply_rules(forms)
             results == filter_forms(next)
         IN  IF results # <<>> THEN results ELSE morphy_loop(next)

morphy(form) ==
    LET forms == apply_rules(<<form>>)
        results == filter_forms(<<form>> \o forms)
    IN  IF results # <<>> THEN results ELSE morphy_loop(forms)

\* min(lemmas, key=len): the first of the shortest
shortest(lemmas) ==
    LET m == CHOOSE i \in 1..Len(lemmas) :
                 /\ \A j \in 1..Len(lemmas) : Len(lemmas[i]) <= Len(lemmas[j])
                 /\ \A j \in 1..(i - 1) : Len(lemmas[j]) > Len(lemmas[i])
    IN  lemmas[m]

lemmatize(word) ==
    LET lemmas == morphy(word)
    IN  IF lemmas # <<>> THEN shortest(lemmas) ELSE word

(***************************************************************************)
(* tokenize, line 49: str.lower() and str.strip()                          *)
(***************************************************************************)
lower_char(c) == IF c = "A" THEN "a" ELSE IF c = "S" THEN "s" ELSE c

str_lower_identity(w) == w

str_lower(w) == [i \in 1..Len(w) |-> lower_char(w[i])]

RECURSIVE lstrip(_)
lstrip(w) == IF w # <<>> /\ Head(w) \in SpaceChars THEN lstrip(Tail(w)) ELSE w

RECURSIVE rstrip(_)
rstrip(w) ==
    IF w # <<>> /\ w[Len(w)] \in SpaceChars
    THEN rstrip(SubSeq(w, 1, Len(w) - 1)) ELSE w

str_strip(w) == rstrip(lstrip(w))

(***************************************************************************)
(* tokenize, lines 38-52                                                   *)
(***************************************************************************)
tokenize(t) ==
    LET tokens == word_tokenize(re_sub(t))
    IN  [i \in 1..Len(tokens) |-> str_strip(str_lower(lemmatize(tokens[i])))]

\* ' '.join(tokens): what a caller re-tokenizes
RECURSIVE join(_)
join(tokens) ==
    IF tokens = <<>> THEN <<>>
    ELSE IF Len(tokens) = 1 THEN tokens[1]
    ELSE tokens[1] \o <<" ">> \o join(Tail(tokens))

(***************************************************************************)
(* Data frames.  A frame has column names in order, a set of row labels    *)
(* and, by column position, the cells of each row.                         *)
(***************************************************************************)
Range(f) == {f[i] : i \in DOMAIN f}

EmptyFrame == [columns |-> <<>>, index |-> {}, data |-> <<>>]

\* position of the (first) column of that name
position(names, name) == CHOOSE i \in 1..Len(names) :
                             names[i] = name /\ \A j \in 1..(i - 1) : names[j] # name

\* frame.iloc[:, start:stop], positions counted from 0, stop excluded and
\* clipped to the width of the frame
iloc_columns(frame, start, stop) ==
    LET last == IF stop < Len(frame.columns) THEN stop ELSE Len(frame.columns)
    IN  [columns |-> SubSeq(frame.columns, start + 1, last),
         index |-> frame.index,
         data |-> SubSeq(frame.data, start + 1, last)]

\* the rows of a frame that a split selects
take_rows(frame, rows) ==
    [columns |-> frame.columns,
     index |-> rows,
     data |-> [i \in 1..Len(frame.data) |-> [r \in rows |-> frame.data[i][r]]]]

replace_noop(frame, name, old, new) == frame

\* frame[name].replace(old, new, inplace=True)
replace(frame, name, old, new) ==
    LET p == position(frame.columns, name)
    IN  [frame EXCEPT !.data[p] =
            [r \in frame.index |-> IF frame.data[p][r] = old THEN new
                                   ELSE frame.data[p][r]]]

(***************************************************************************)
(* The messages table of the database, line 31.                            *)
(***************************************************************************)
\* iloc[:, 4:39] of line 33
LabelStart == 4
LabelStop == 39

\* the values a cell of the "related" column may hold
LabelValues == {0, 1, 2, 3}

\* names of the columns of the messages table, by position
ColName(i) ==
    IF i = 1 THEN "id" ELSE IF i = 2 THEN "message" ELSE IF i = 3 THEN "original"
    ELSE IF i = 4 THEN "genre" ELSE IF i = 5 THEN "related"
    ELSE "category_" \o ToString(i)

\* how the cells of the other label columns are filled
Patterns == {"zero", "alt"}

PatternCell(pat, r, i) == IF pat = "zero" THEN 0 ELSE (r + i) % 2

MakeTable(w, rel, pat) ==
    [columns |-> [i \in 1..w |-> ColName(i)],
     index |-> 1..Len(rel),
     data |-> [i \in 1..w |->
                 [r \in 1..Len(rel) |->
                     IF i = 5 THEN rel[r]
                     ELSE IF i <= 4 THEN r
                     ELSE PatternCell(pat, r, i)]]]

\* narrow tables of few rows, every content of the "related" column
SmallTables ==
    {MakeTable(w, rel, pat) :
        w \in 1..MaxCols,
        rel \in UNION {[1..n -> LabelValues] : n \in 0..MaxRows},
        pat \in Patterns}

\* narrow tables of Messages rows
EndToEndTables ==
    {MakeTable(w, rel, pat) :
        w \in 5..MaxCols,
        rel \in {[r \in 1..Messages |-> r % k] : k \in 2..4},
        pat \in Patterns}

\* tables of Messages rows as wide as the label slice and wider
WideTables ==
    {MakeTable(w, [r \in 1..Messages |-> r % 3], "alt") :
        w \in (LabelStop - 1)..(LabelStop + 2)}

Databases ==
    {[readable |-> FALSE, messages |-> EmptyFrame]}
    \cup {[readable |-> TRUE, messages |-> t] :
             t \in SmallTables \cup EndToEndTables \cup WideTables}

(***************************************************************************)
(* load_data, lines 20-36                                                  *)
(***************************************************************************)
NoData == [exc |-> "none", X |-> <<>>, y |-> EmptyFrame, category_names |-> <<>>]

category_names_of_table(df, y) ==
    SubSeq(df.columns, LabelStart + 1, Len(df.columns))

\* line 35: y.columns.tolist()
category_names_of(df, y) == y.columns

load_data(database) ==
    IF ~database.readable
    THEN [NoData EXCEPT !.exc = "OperationalError"]
    ELSE LET df == database.messages
         IN  IF "message" \notin Range(df.columns)
             THEN [NoData EXCEPT !.exc = "KeyError"]
             ELSE LET X == df.data[position(df.columns, "message")]
                      y == iloc_columns(df, LabelStart, LabelStop)
                  IN  IF "related" \notin Range(y.columns)
                      THEN [NoData EXCEPT !.exc = "KeyError"]
                      ELSE LET y1 == replace(y, "related", 2, 1)
                           IN  [exc |-> "none", X |-> X, y |-> y1,
                                category_names |-> category_names_of(df, y1)]

(***************************************************************************)
(* train_test_split(X, Y, test_size=0.2), line 110: ceil(0.2 n) rows, any  *)
(* of them, are held out; an empty training or test set is an error.       *)
(***************************************************************************)
n_test(n) == (n + 4) \div 5

test_sets(index) ==
    {t \in SUBSET index : Cardinality(t) = n_test(Cardinality(index))}

(***************************************************************************)
(* build_model, lines 55-76, and the fitted search.  The classifier is     *)
(* opaque: a fitted model predicts, for each output and row, one of the    *)
(* classes its output saw in training.                                     *)
(***************************************************************************)
NoModel == [state |-> "undefined", kind |-> "none", classes |-> <<>>, trained_on |-> {}]

build_model == [NoModel EXCEPT !.state = "unfit"]

\* GridSearchCV of line 75 is given no cv: the folds of its default
CvFolds == 5

\* the predictors a fit may arrive at
Kinds == {"zeros", "ones", "mixed"}

\* model.fit(X_train, Y_train), line 116
fit(X_train, Y_train, kind) ==
    [state |-> "fit", kind |-> kind,
     classes |-> [i \in 1..Len(Y_train.data) |-> Range(Y_train.data[i])],
     trained_on |-> DOMAIN X_train]

candidate(kind, r, i) ==
    IF kind = "zeros" THEN 0 ELSE IF kind = "ones" THEN 1 ELSE (r + i) % 2

seen(c, classes) ==
    IF c \in classes THEN c
    ELSE CHOOSE v \in classes : \A u \in classes : v <= u

\* model.predict(X_test), line 89: one column per output, by position
predict(m, X_test) ==
    [i \in 1..Len(m.classes) |->
        [r \in DOMAIN X_test |-> seen(candidate(m.kind, r, i), m.classes[i])]]

(***************************************************************************)
(* precision_score, recall_score, f1_score (binary, positive label 1),     *)
(* lines 94-96.  A score is a fraction <<numerator, denominator>>; an      *)
(* undefined score is 0 with a warning.                                    *)
(***************************************************************************)
labels_of(y_true, y_pred) == Range(y_true) \cup Range(y_pred)

\* the targets the scorers reject with a ValueError
rejected(y_true, y_pred) ==
    LET labels == labels_of(y_true, y_pred)
    IN  \/ Cardinality(labels) > 2
        \/ 1 \notin labels /\ Cardinality(labels) >= 2

ratio_unguarded(a, b) == <<a, b>>

ratio(a, b) == IF b = 0 THEN <<0, 1>> ELSE <<a, b>>

tp(y_true, y_pred) == Cardinality({r \in DOMAIN y_true : y_true[r] = 1 /\ y_pred[r] = 1})

fp(y_true, y_pred) == Cardinality({r \in DOMAIN y_true : y_true[r] # 1 /\ y_pred[r] = 1})

fn(y_true, y_pred) == Cardinality({r \in DOMAIN y_true : y_true[r] = 1 /\ y_pred[r] # 1})

precision_score(y_true, y_pred) ==
    ratio(tp(y_true, y_pred), tp(y_true, y_pred) + fp(y_true, y_pred))

recall_score(y_true, y_pred) ==
    ratio(tp(y_true, y_pred), tp(y_true, y_pred) + fn(y_true, y_pred))

f1_score(y_true, y_pred) ==
    ratio(2 * tp(y_true, y_pred),
          2 * tp(y_true, y_pred) + fp(y_true, y_pred) + fn(y_true, y_pred))

\* a category with no positive example among the true labels: the recall
\* is undefined, the scorer warns (UndefinedMetricWarning) and returns 0
empty_category(y_true) == \A r \in DOMAIN y_true : y_true[r] # 1

(***************************************************************************)
(* evaluate_model, lines 78-97                                             *)
(***************************************************************************)
NoFrame == [columns |-> <<>>, index |-> <<>>, data |-> <<>>]

NoEvaluation ==
    [exc |-> "none", printed |-> NoFrame, pairs |-> <<>>, warned |-> {},
     returned |-> [type |-> "unset"]]

\* pd.DataFrame(evaluation) for evaluation = {column: [precision, recall, f1]}:
\* one column per key, one row per list position
DataFrame_of_dict(keys, lists) ==
    [columns |-> keys,
     index |-> IF keys = <<>> THEN <<>> ELSE [k \in 1..Len(lists[1]) |-> k - 1],
     data |-> lists]

evaluate_model(m, X_test, Y_test, category_names) ==
    LET y_pred == predict(m, X_test)
    IN  IF Len(category_names) # Len(y_pred)
        THEN [NoEvaluation EXCEPT !.exc = "ValueError"]
        ELSE IF \E c \in Range(Y_test.columns) : c \notin Range(category_names)
        THEN [NoEvaluation EXCEPT !.exc = "KeyError"]
        ELSE
        LET y_pred_df == [columns |-> category_names, index |-> DOMAIN X_test,
                          data |-> y_pred]
            n == Len(Y_test.columns)
            true_at(i) == i
            pred_at(i) == position(y_pred_df.columns, Y_test.columns[i])
            y_t(i) == Y_test.data[true_at(i)]
            y_p(i) == y_pred_df.data[pred_at(i)]
        IN  IF \E i \in 1..n : rejected(y_t(i), y_p(i))
            THEN [NoEvaluation EXCEPT !.exc = "ValueError"]
            ELSE [exc |-> "none",
                  printed |-> DataFrame_of_dict(Y_test.columns,
                                 [i \in 1..n |-> << precision_score(y_t(i), y_p(i)),
                                                    recall_score(y_t(i), y_p(i)),
                                                    f1_score(y_t(i), y_p(i)) >>]),
                  pairs |-> [i \in 1..n |-> <<true_at(i), pred_at(i)>>],
                  warned |-> {Y_test.columns[i] : i \in {j \in 1..n : empty_category(y_t(j))}},
                  returned |-> [type |-> "None"]]

(***************************************************************************)
(* save_model, lines 100-102: open(model_filepath, 'wb') creates the file, *)
(* pickle.dump writes the model into it.                                   *)
(***************************************************************************)
SaveOutcomes == {"saved", "open fails", "dump fails"}

save_exc(outcome) ==
    IF outcome = "open fails" THEN "OSError"
    ELSE IF outcome = "dump fails" THEN "PicklingError" ELSE "none"

save_file(m, outcome) ==
    IF outcome = "open fails" THEN [state |-> "absent", model |-> NoModel]
    ELSE IF outcome = "dump fails" THEN [state |-> "truncated", model |-> NoModel]
    ELSE [state |-> "written", model |-> m]

(***************************************************************************)
(* main, lines 105-130                                                     *)
(***************************************************************************)
\* the command lines: the script name and up to MaxArgs arguments
CommandLine == <<"train_classifier.py", "DisasterResponse.db", "classifier.pkl",
                 "extra_1", "extra_2", "extra_3", "extra_4">>

args_at_least(av) == Len(av) >= 3

\* line 106
args_ok(av) == Len(av) = 3

StagesSaveEarly == <<"load", "split", "build", "fit", "save", "evaluate">>

\* the calls of lines 109-122, in program order
Stages == <<"load", "split", "build", "fit", "evaluate", "save">>

swallowed(exc, stage) == "running"

\* main has no try/except: an exception raised in a stage ends the process
uncaught(exc, stage) == IF exc # "none" THEN "crashed" ELSE "running"

Usage == "Please provide the filepath ..."

VARIABLES
    text, clean_tokens, again, tpc,     \* the tokenizer and its caller
    argv, database,                     \* the command line and the database file
    pc,                                 \* main: number of stages completed
    proc,                               \* "running", "exited" (main returned), "crashed"
    error, failed_at,                   \* the uncaught exception and its stage
    trace,                              \* the stages entered, in order
    stdout,                             \* the lines printed
    loaded,                             \* X, Y, category_names of line 109
    parts,                              \* X_train, X_test, Y_train, Y_test of line 110
    model,                              \* model of lines 113-116
    evaluation,                         \* what evaluate_model printed and returned
    file                                \* the file at model_filepath

tokvars == <<text, clean_tokens, again, tpc>>

mainvars == <<argv, database, pc, proc, error, failed_at, trace, stdout, loaded,
              parts, model, evaluation, file>>

vars == <<tokvars, mainvars>>

NoParts == [X_train |-> <<>>, X_test |-> <<>>, Y_train |-> EmptyFrame, Y_test |-> EmptyFrame]

NoFile == [state |-> "absent", model |-> NoModel]

TokIdle ==
    /\ text = <<>>
    /\ clean_tokens = <<>>
    /\ again = <<>>
    /\ tpc = "idle"

MainIdle ==
    /\ argv = <<>>
    /\ database = [readable |-> FALSE, messages |-> EmptyFrame]
    /\ pc = 0
    /\ proc = "idle"
    /\ error = "none"
    /\ failed_at = "none"
    /\ trace = <<>>
    /\ stdout = <<>>
    /\ loaded = NoData
    /\ parts = NoParts
    /\ model = NoModel
    /\ evaluation = NoEvaluation
    /\ file = NoFile

InitTok ==
    /\ text \in Texts
    /\ clean_tokens = <<>>
    /\ again = <<>>
    /\ tpc = "input"
    /\ MainIdle

\* clean_tokens = tokenize(text)
Tokenize ==
    /\ tpc = "input"
    /\ clean_tokens' = tokenize(text)
    /\ tpc' = "tokenized"
    /\ UNCHANGED <<text, again, mainvars>>

\* tokenize(' '.join(clean_tokens))
Retokenize ==
    /\ tpc = "tokenized"
    /\ again' = tokenize(join(clean_tokens))
    /\ tpc' = "retokenized"
    /\ UNCHANGED <<text, clean_tokens, mainvars>>

NextTok == Tokenize \/ Retokenize

SpecTok == InitTok /\ [][NextTok]_vars

Init ==
    /\ TokIdle
    /\ argv \in {SubSeq(CommandLine, 1, 1 + k) : k \in 0..MaxArgs}
    /\ database \in Databases
    /\ pc = 0
    /\ proc = "running"
    /\ error = "none"
    /\ failed_at = "none"
    /\ trace = <<>>
    /\ stdout = <<>>
    /\ loaded = NoData
    /\ parts = NoParts
    /\ model = NoModel
    /\ evaluation = NoEvaluation
    /\ file = NoFile

\* the stage about to run
at(stage) == proc = "running" /\ pc < Len(Stages) /\ Stages[pc + 1] = stage

\* what entering a stage and leaving it with exc does to the process
step(stage, exc) ==
    /\ trace' = Append(trace, stage)
    /\ error' = exc
    /\ failed_at' = IF exc # "none" THEN stage ELSE "none"
    /\ proc' = uncaught(exc, stage)
    /\ pc' = IF uncaught(exc, stage) = "crashed" THEN pc ELSE pc + 1

\* lines 126-130: any other number of arguments
PrintUsage ==
    /\ proc = "running" /\ pc = 0
    /\ ~args_ok(argv)
    /\ stdout' = Append(stdout, Usage)
    /\ proc' = "exited"
    /\ UNCHANGED <<tokvars, argv, database, pc, error, failed_at, trace, loaded,
                   parts, model, evaluation, file>>

\* lines 107-109
LoadData ==
    /\ at("load") /\ pc = 0
    /\ args_ok(argv)
    /\ stdout' = Append(stdout, "Loading data...")
    /\ loaded' = load_data(database)
    /\ step("load", loaded'.exc)
    /\ UNCHANGED <<tokvars, argv, database, parts, model, evaluation, file>>

\* line 110
Split ==
    /\ at("split")
    /\ LET index == DOMAIN loaded.X
       IN  IF index = {} \/ n_test(Cardinality(index)) = Cardinality(index)
           THEN /\ parts' = parts
                /\ step("split", "ValueError")
           ELSE \E t \in test_sets(index) :
                   /\ parts' = [X_train |-> [r \in index \ t |-> loaded.X[r]],
                                X_test |-> [r \in t |-> loaded.X[r]],
                                Y_train |-> take_rows(loaded.y, index \ t),
                                Y_test |-> take_rows(loaded.y, t)]
                   /\ step("split", "none")
    /\ UNCHANGED <<tokvars, argv, database, stdout, loaded, model, evaluation, file>>

\* lines 112-113
BuildModel ==
    /\ at("build")
    /\ stdout' = Append(stdout, "Building model...")
    /\ model' = build_model
    /\ step("build", "none")
    /\ UNCHANGED <<tokvars, argv, database, loaded, parts, evaluation, file>>

\* lines 115-116: the search raises when there are fewer training rows than
\* folds; otherwise it fits, or raises when every candidate fails (no term
\* left in the vocabulary)
Fit ==
    /\ at("fit")
    /\ stdout' = Append(stdout, "Training model...")
    /\ \/ /\ Cardinality(DOMAIN parts.X_train) >= CvFolds
          /\ \E kind \in Kinds :
                /\ model' = fit(parts.X_train, parts.Y_train, kind)
                /\ step("fit", "none")
       \/ /\ model' = model
          /\ step("fit", "ValueError")
    /\ UNCHANGED <<tokvars, argv, database, loaded, parts, evaluation, file>>

\* lines 118-119
Evaluate ==
    /\ at("evaluate")
    /\ stdout' = Append(stdout, "Evaluating model...")
    /\ evaluation' = evaluate_model(model, parts.X_test, parts.Y_test,
                                    loaded.category_names)
    /\ step("evaluate", evaluation'.exc)
    /\ UNCHANGED <<tokvars, argv, database, loaded, parts, model, file>>

\* lines 121-124
Save ==
    /\ at("save")
    /\ \E outcome \in SaveOutcomes :
          /\ file' = save_file(model, outcome)
          /\ step("save", save_exc(outcome))
          /\ stdout' = IF uncaught(save_exc(outcome), "save") = "crashed"
                       THEN Append(stdout, "Saving model...")
                       ELSE stdout \o <<"Saving model...", "Trained model saved!">>
    /\ UNCHANGED <<tokvars, argv, database, loaded, parts, model, evaluation>>

\* main returns after line 124
Return ==
    /\ proc = "running" /\ pc = Len(Stages)
    /\ proc' = "exited"
    /\ UNCHANGED <<tokvars, argv, database, pc, error, failed_at, trace, stdout,
                   loaded, parts, model, evaluation, file>>

Next ==
    \/ PrintUsage
    \/ LoadData
    \/ Split
    \/ BuildModel
    \/ Fit
    \/ Evaluate
    \/ Save
    \/ Return

Spec == Init /\ [][Next]_vars

(***************************************************************************)
(* The claims.                                                             *)
(***************************************************************************)

\* C1 as stated: every token returned by tokenize contains no punctuation
\* character and no upper-case character.
C1_NoPunctuationLowercase ==
    tpc # "input" =>
        \A i \in 1..Len(clean_tokens) : \A j \in 1..Len(clean_tokens[i]) :
            /\ clean_tokens[i][j] \notin Punctuation
            /\ clean_tokens[i][j] \notin UpperChars

\* C1 amended: every token returned by tokenize contains no punctuation
\* character other than the underscore (which \w matches) and is entirely
\* lowercase.
C1_WordCharsLowercase ==
    tpc # "input" =>
        \A i \in 1..Len(clean_tokens) : \A j \in 1..Len(clean_tokens[i]) :
            /\ clean_tokens[i][j] \notin Punctuation \ {"_"}
            /\ clean_tokens[i][j] \notin UpperChars

\* a text with punctuation and an upper-case letter has been tokenized
C1_Witness ==
    /\ tpc = "tokenized"
    /\ \E i \in 1..Len(text) : text[i] = "!"
    /\ \E i \in 1..Len(text) : text[i] \in UpperChars
    /\ clean_tokens # <<>>

\* C2: tokenizing the space-joined output of tokenize(s) returns the token
\* sequence tokenize(s).
C2_Idempotent == tpc = "retokenized" => again = clean_tokens

related_cells(frame) == frame.data[position(frame.columns, "related")]

\* C3 as stated: after load_data returns, every value of the "related"
\* column of the label matrix is 0 or 1.
C3_RelatedBinary ==
    (pc >= 1 /\ loaded.exc = "none") =>
        \A r \in loaded.y.index : related_cells(loaded.y)[r] \in {0, 1}

\* C3 amended: after load_data returns, the value 2 never appears in the
\* "related" column: a stored 2 is returned as 1 and every other stored
\* value is returned as it is stored, so the column is within {0,1} when the
\* stored values are within {0,1,2}.
C3_TwoReplaced ==
    (pc >= 1 /\ loaded.exc = "none") =>
        /\ loaded.y.index = database.messages.index
        /\ \A r \in loaded.y.index :
              /\ related_cells(loaded.y)[r] # 2
              /\ related_cells(loaded.y)[r] =
                    IF related_cells(database.messages)[r] = 2 THEN 1
                    ELSE related_cells(database.messages)[r]
        /\ (\A r \in loaded.y.index : related_cells(database.messages)[r] \in {0, 1, 2})
              => \A r \in loaded.y.index : related_cells(loaded.y)[r] \in {0, 1}

\* a table whose "related" column holds a 2 and a 0 has been loaded
C3_Witness ==
    /\ pc >= 1 /\ loaded.exc = "none"
    /\ \E r \in loaded.y.index : related_cells(database.messages)[r] = 2
    /\ \E r \in loaded.y.index : related_cells(database.messages)[r] = 0

\* C4: the category name list returned by load_data is as long as the label
\* matrix has columns and its i-th name is the name of the i-th label
\* column; evaluate_model scores the i-th true label column against the
\* prediction column of the same position, the model's i-th output.
C4_NamesMatchColumns ==
    /\ (pc >= 1 /\ loaded.exc = "none") =>
          /\ Len(loaded.category_names) = Len(loaded.y.data)
          /\ Len(loaded.category_names) = Len(loaded.y.columns)
          /\ \A i \in 1..Len(loaded.y.columns) :
                /\ loaded.category_names[i] = loaded.y.columns[i]
                /\ loaded.y.columns[i] = database.messages.columns[LabelStart + i]
                /\ loaded.y.data[i] =
                      IF loaded.y.columns[i] = "related" THEN related_cells(loaded.y)
                      ELSE database.messages.data[LabelStart + i]
    /\ (pc >= 5 /\ evaluation.exc = "none") =>
          /\ Len(evaluation.pairs) = Len(loaded.category_names)
          /\ Len(evaluation.pairs) = Len(model.classes)
          /\ \A i \in 1..Len(evaluation.pairs) :
                /\ evaluation.pairs[i] = <<i, i>>
                /\ evaluation.printed.columns[i] = loaded.category_names[i]

\* a table wider than the label slice has been loaded and evaluated
C4_Witness ==
    /\ pc >= 5 /\ evaluation.exc = "none"
    /\ Len(database.messages.columns) > LabelStop
    /\ Len(evaluation.pairs) = LabelStop - LabelStart

\* C5: main runs the pipeline only when exactly two arguments follow the
\* script name; with any other number it prints the usage message and
\* returns, nothing loaded, trained, evaluated or written, no exception
\* raised and no exit status set.
C5_UsageOnly ==
    /\ (trace # <<>> \/ loaded # NoData \/ model # NoModel \/ file # NoFile)
          => Len(argv) = 3
    /\ Len(argv) # 3 =>
          /\ proc \in {"running", "exited"}
          /\ error = "none"
          /\ trace = <<>>
          /\ parts = NoParts /\ evaluation = NoEvaluation
          /\ stdout = IF proc = "exited" THEN <<Usage>> ELSE <<>>

\* main has returned the usage message for three arguments
C5_Witness == proc = "exited" /\ Len(argv) = 4 /\ stdout = <<Usage>>

in_unit(score) == score[2] > 0 /\ 0 <= score[1] /\ score[1] <= score[2]

\* C6 as stated: the report printed by evaluate_model has one row per
\* category and every score in it lies in [0,1].
C6_RowPerCategory ==
    (pc >= 5 /\ evaluation.exc = "none") =>
        /\ Len(evaluation.printed.index) = Len(loaded.category_names)
        /\ \A i \in 1..Len(evaluation.printed.data) : \A k \in 1..3 :
              in_unit(evaluation.printed.data[i][k])

\* C6 amended: the report printed by evaluate_model has exactly three rows,
\* precision, recall and F1, and one column per category, named after it
\* (3 rows and 3 columns for 3 categories); every score lies in [0,1].
C6_ColumnPerCategory ==
    (pc >= 5 /\ evaluation.exc = "none") =>
        /\ evaluation.printed.index = <<0, 1, 2>>
        /\ evaluation.printed.columns = loaded.category_names
        /\ Len(evaluation.printed.data) = Len(loaded.category_names)
        /\ \A i \in 1..Len(evaluation.printed.data) :
              /\ Len(evaluation.printed.data[i]) = 3
              /\ \A k \in 1..3 : in_unit(evaluation.printed.data[i][k])

\* Messages messages of 3 categories have been trained on and evaluated,
\* with a score strictly between 0 and 1 and an undefined score
C6_Witness ==
    /\ pc >= 5 /\ evaluation.exc = "none"
    /\ Cardinality(DOMAIN loaded.X) = Messages
    /\ Len(loaded.category_names) = 3
    /\ \E i \in 1..3 : evaluation.printed.data[i][1] = <<1, 2>>
    /\ evaluation.warned # {}

stage_index(stage) == CHOOSE i \in 1..6 :
    <<"load", "split", "build", "fit", "evaluate", "save">>[i] = stage

\* C7 as stated: every failure in a stage, an empty category during
\* evaluation included, ends the process at that stage: no later stage
\* runs, and after a failure before or during evaluation the model file is
\* never written and 'Trained model saved!' never printed.
C7_EveryFailureTerminates ==
    LET failing == IF error # "none" THEN failed_at
                   ELSE IF evaluation.warned # {} THEN "evaluate" ELSE "none"
    IN  failing # "none" =>
           /\ proc = "crashed"
           /\ Len(trace) = stage_index(failing)
           /\ failing # "save" =>
                 /\ file.state = "absent"
                 /\ "Trained model saved!" \notin Range(stdout)

\* C7 amended: every exception raised in a stage (database unreadable,
\* malformed schema, too few rows, a rejected fit, labels the scorers
\* reject, a failing open or dump) is uncaught and ends the process at that
\* stage: no later stage runs, 'Trained model saved!' is never printed, and
\* unless the stage is save the model file is never written.  An empty
\* category during evaluation raises no exception: its scores are 0 and the
\* run goes on to save.
C7_ExceptionTerminates ==
    /\ (error # "none") <=> (proc = "crashed")
    /\ (error # "none") <=> (failed_at # "none")
    /\ error # "none" =>
          /\ Len(trace) = stage_index(failed_at)
          /\ trace[Len(trace)] = failed_at
          /\ pc = Len(trace) - 1
          /\ "Trained model saved!" \notin Range(stdout)
          /\ failed_at # "save" => file.state = "absent"
    /\ (pc >= 5 /\ evaluation.exc = "none") =>
          \A i \in 1..Len(parts.Y_test.data) :
              empty_category(parts.Y_test.data[i]) =>
                 /\ parts.Y_test.columns[i] \in evaluation.warned
                 /\ evaluation.printed.data[i][2] = <<0, 1>>

\* the scorers have rejected the labels of a category, ending the process
\* in evaluate
C7_Witness ==
    /\ proc = "crashed" /\ failed_at = "evaluate" /\ error = "ValueError"
    /\ file.state = "absent"

\* C9: evaluate_model returns the performances table it printed.
C9_ReturnsPerformances ==
    evaluation.returned.type # "unset" =>
        evaluation.returned = [type |-> "DataFrame", frame |-> evaluation.printed]

\* C10: in every run with two arguments the stages entered are, in order, a
\* prefix of load, split, build, fit, evaluate, save, each entered once, and
\* a run that returns has entered all six; the model is created by build
\* only, fitted on the training rows only, evaluated on held-out rows only
\* after it is fitted, and written to the file only by save, after fit and
\* evaluation have completed.
C10_StagesInOrder ==
    LET order == <<"load", "split", "build", "fit", "evaluate", "save">>
    IN  /\ Len(trace) <= 6
        /\ trace = SubSeq(order, 1, Len(trace))
        /\ Len(trace) = IF proc = "crashed" THEN pc + 1 ELSE pc
        /\ (proc = "exited" /\ Len(argv) = 3) => trace = order
        /\ (model.state = "undefined") <=> (Len(trace) < 3)
        /\ (model.state = "fit") <=> (pc >= 4)
        /\ model.state = "fit" =>
              /\ model.trained_on = DOMAIN parts.X_train
              /\ model.trained_on \cap DOMAIN parts.X_test = {}
              /\ DOMAIN parts.X_test # {}
        /\ evaluation # NoEvaluation => (model.state = "fit" /\ Len(trace) >= 5)
        /\ file.state # "absent" =>
              /\ trace = order
              /\ pc >= 5 /\ evaluation.exc = "none"
        /\ file.state = "written" => (file.model = model /\ model.state = "fit")

\* a run with two arguments has returned with the model written
C10_Witness ==
    /\ proc = "exited" /\ Len(argv) = 3
    /\ file.state = "written"
    /\ "Trained model saved!" \in Range(stdout)

====
